---- MODULE Spec2Model ----
(***************************************************************************)
(* Model of the define_routes! procedural macro (src/src/lib.rs).          *)
(*                                                                         *)
(* The macro is a one-pass recursive-descent parser over a token stream    *)
(* followed by a renderer.  The parser is modelled step by step: every     *)
(* action inspects the token at the cursor and either consumes it, leaves  *)
(* it, or fails.  The token stream is supplied by the environment: a token *)
(* becomes part of `toks` the first time the parser looks at it, so the    *)
(* model explores every input up to the length bound without enumerating   *)
(* the tokens that follow the point where a parse has already failed.      *)
(*                                                                         *)
(* The table's brace group is written as the two tokens LBrace / RBrace;   *)
(* the environment keeps them balanced, as the host tokenizer does, so     *)
(* `content.is_empty()` is "the cursor is at RBrace" and the end of the    *)
(* macro input is the pseudo token EOF.  A nested route's block is one     *)
(* token carrying the statements the host block grammar found in it.       *)
(***************************************************************************)
EXTENDS Naturals, Sequences, FiniteSets, TLC

VARIABLES toks, pos, pc, route, routes, cur, err, output

vars == <<toks, pos, pc, route, routes, cur, err, output>>

(***************************************************************************)
(* Bounds.                                                                 *)
(***************************************************************************)
\* tokens of an exhaustively explored input, closing tokens not counted
MaxLen == 7
\* statements of a nested route's block
MaxStmts == 2

(***************************************************************************)
(* Tokens.                                                                 *)
(***************************************************************************)
Tok(k, v) == [k |-> k, v |-> v, stmts |-> <<>>]
Blk(s) == [k |-> "Block", v |-> "", stmts |-> s]

LBrace == Tok("LBrace", "{")
RBrace == Tok("RBrace", "}")
EOF == Tok("EOF", "")
Comma == Tok("Comma", ",")
Star == Tok("Star", "*")
PathSep == Tok("PathSep", "::")
Str(s) == Tok("Str", s)
Ident(s) == Tok("Ident", s)
Num(s) == Tok("Num", s)
\* A base expression as syn::Expr delimits it, one token here.  How the host
\* expression grammar reads a bare path followed by a brace group (a struct
\* literal) is not part of the macro's source and is not modelled.
Expr(s) == Tok("Expr", s)

\* The statement kinds of syn::Stmt as the block grammar classifies them:
\* an expression without / with a trailing semicolon, a let binding, an item.
StmtKinds == {"ExprTail", "ExprSemi", "Local", "Item"}

\* Blocks the host grammar can produce: an expression without a semicolon
\* can only be the last statement.
Blocks ==
  {s \in UNION {[1..n -> StmtKinds] : n \in 0..MaxStmts} :
     \A i \in 1..Len(s) : s[i] = "ExprTail" => i = Len(s)}

(***************************************************************************)
(* The inputs the environment can supply.                                  *)
(***************************************************************************)
TopAlphabet == {Expr("myRoute"), Comma, LBrace}

ContentAlphabet ==
  {Str("/"), Ident("a"), Ident("GET"), Ident("POST"), PathSep, Star, Num("123")}
    \cup {Blk(s) : s \in Blocks}

\* Longer inputs that are followed token by token: the round-trip scenario
\* of the specification, the example of the macro's documentation (with
\* the comma the parser requires), and inputs using the remaining keywords.
Scenarios ==
  { <<Expr("myRoute"), Comma, LBrace,
      Str("/"), Ident("index"), Ident("GET"),
      Str("/x"), Ident("a"), PathSep, Ident("b"), Ident("GET"), Ident("POST"),
      RBrace, EOF>>,
    <<Expr("route"), Comma, LBrace,
      Star, Str("/static"), Blk(<<"ExprTail">>),
      Str("/"), Ident("index"), Ident("GET"),
      Str("/foo"), Ident("module"), PathSep, Ident("foo"), Ident("GET"), Ident("POST"),
      Str("/bar"), Ident("bar"), Ident("GET"), Ident("POST"), Ident("PUT"),
      RBrace, EOF>>,
    <<LBrace, Str("/d"), Ident("m"), PathSep, Ident("item"),
      Ident("DELETE"), Ident("PUT"), Ident("DELETE"), Ident("GET"), RBrace, EOF>>,
    <<LBrace, Str("/"), Ident("index"), Ident("GET"), Ident("get"), RBrace, EOF>> }

\* The cursor is inside the table's brace group.
InGroup(prefix) ==
  /\ \E i \in 1..Len(prefix) : prefix[i] = LBrace
  /\ \A i \in 1..Len(prefix) : prefix[i] # RBrace

\* The tokens that can follow the tokens seen so far.
NextTokens(prefix) ==
  (IF InGroup(prefix)
     THEN (IF Len(prefix) < MaxLen THEN ContentAlphabet ELSE {}) \cup {RBrace}
     ELSE (IF Len(prefix) < MaxLen THEN TopAlphabet ELSE {}) \cup {EOF})
  \cup {s[Len(prefix) + 1] : s \in {x \in Scenarios :
          /\ Len(x) > Len(prefix)
          /\ SubSeq(x, 1, Len(prefix)) = prefix}}

\* The token at the cursor: the one already looked at, or any token the
\* stream may hold there.
Look == IF pos < Len(toks) THEN {toks[pos + 1]} ELSE NextTokens(toks)

Seen(t) == IF pos < Len(toks) THEN toks ELSE Append(toks, t)

(***************************************************************************)
(* The abstract syntax.                                                    *)
(***************************************************************************)
NoRoute ==
  [kind |-> "None", path |-> "", leading |-> FALSE, segs |-> <<>>,
   methods |-> <<>>, stmts |-> <<>>, from |-> 0, to |-> 0]

NoError == [at |-> 0, expected |-> ""]

MethodKeywords == {"GET", "POST", "PUT", "DELETE"}

\* Method::render
MethodRender(m) ==
  CASE m = "GET" -> "get"
    [] m = "POST" -> "post"
    [] m = "PUT" -> "put"
    [] m = "DELETE" -> "delete"

(***************************************************************************)
(* Rendering.  The output is a sequence of tokens.                         *)
(***************************************************************************)
RECURSIVE Flatten(_)
Flatten(ss) == IF ss = <<>> THEN <<>> ELSE Head(ss) \o Flatten(Tail(ss))

\* A string literal token as it is printed.
LitStr(v) == "\"" \o v \o "\""

\* A syn::Path printed: its segments separated by `::`.
PathTokens(leading, segs) ==
  (IF leading THEN <<"::">> ELSE <<>>)
    \o Flatten([i \in 1..Len(segs) |->
                  IF i = 1 THEN <<segs[i]>> ELSE <<"::", segs[i]>>])

\* The statements of a block printed.
StmtTokens(kind) ==
  CASE kind = "ExprTail" -> <<"ep", "(", ")">>
    [] kind = "ExprSemi" -> <<"ep", "(", ")", ";">>
    [] kind = "Local" -> <<"let", "x", "=", "ep", "(", ")", ";">>
    [] kind = "Item" -> <<"use", "m", ";">>

BlockTokens(stmts) ==
  <<"{">> \o Flatten([i \in 1..Len(stmts) |-> StmtTokens(stmts[i])]) \o <<"}">>

\* The expression of an expression statement, whether or not a semicolon
\* follows it.
IsStmtExpr(kind) == kind \in {"ExprTail", "ExprSemi"}

\* cleanup_endpoint without its test of the number of statements.
CleanupEndpointFirst(stmts) ==
  IF Len(stmts) >= 1 /\ IsStmtExpr(stmts[1])
    THEN StmtTokens("ExprTail")
    ELSE BlockTokens(stmts)

\* NestedRoute::cleanup_endpoint
CleanupEndpoint(stmts) ==
  IF Len(stmts) = 1 /\ IsStmtExpr(stmts[1])
    THEN StmtTokens("ExprTail")
    ELSE BlockTokens(stmts)

\* NestedRoute::render
NestedRouteRender(r) ==
  <<".", "nest", "(", LitStr(r.path), ",">> \o CleanupEndpoint(r.stmts) \o <<")">>

\* apply_method with the two parts of the name exchanged.
ApplyMethodSuffix(ident, method) == ident \o "_" \o MethodRender(method)

\* apply_method
ApplyMethod(ident, method) == MethodRender(method) \o "_" \o ident

\* apply_method_path renaming the first segment of the path, not the last.
ApplyMethodPathFirst(head, leading, segs, method) ==
  LET path == IF Len(segs) > 0
                THEN [segs EXCEPT ![1] = MethodRender(method) \o "_" \o @]
                ELSE segs
  IN  IF head
        THEN <<"poem", "::", MethodRender(method), "(">>
               \o PathTokens(leading, path) \o <<")">>
        ELSE <<".", MethodRender(method), "(">>
               \o PathTokens(leading, path) \o <<")">>

\* apply_method_path: the path is cloned, the last segment of the clone is
\* renamed, and the call is printed.
ApplyMethodPath(head, leading, segs, method) ==
  LET path == IF Len(segs) > 0
                THEN [segs EXCEPT ![Len(segs)] = ApplyMethod(@, method)]
                ELSE segs
  IN  IF head
        THEN <<"poem", "::", MethodRender(method), "(">>
               \o PathTokens(leading, path) \o <<")">>
        ELSE <<".", MethodRender(method), "(">>
               \o PathTokens(leading, path) \o <<")">>

\* The loop of StandardRoute::render passing over a method it has already
\* rendered.
RECURSIVE BuilderOnce(_, _)
BuilderOnce(r, n) ==
  IF n = 0
    THEN <<>>
    ELSE LET builder == BuilderOnce(r, n - 1)
         IN  IF \E j \in 1..(n - 1) : r.methods[j] = r.methods[n]
               THEN builder
               ELSE Append(builder,
                           ApplyMethodPath(builder = <<>>, r.leading, r.segs,
                                           r.methods[n]))

\* The loop of StandardRoute::render over the first n methods: the call is
\* a head call when the builder is still empty.
RECURSIVE Builder(_, _)
Builder(r, n) ==
  IF n = 0
    THEN <<>>
    ELSE LET builder == Builder(r, n - 1)
         IN  Append(builder,
                    ApplyMethodPath(builder = <<>>, r.leading, r.segs, r.methods[n]))

\* StandardRoute::render
StandardRouteRender(r) ==
  <<".", "at", "(", LitStr(r.path), ",">>
    \o Flatten(Builder(r, Len(r.methods))) \o <<")">>

\* Route::render
RouteRender(r) ==
  IF r.kind = "Nested" THEN NestedRouteRender(r) ELSE StandardRouteRender(r)

\* The base expression when the input starts with the table.
DefaultRoute == <<"poem", "::", "Route", "::", "new", "(", ")">>

\* Routes::render emitting the routes last to first.
RoutesRenderReversed(base, rs) ==
  base \o Flatten([i \in 1..Len(rs) |-> RouteRender(rs[Len(rs) + 1 - i])])

\* Routes::render
RoutesRender(base, rs) ==
  base \o Flatten([i \in 1..Len(rs) |-> RouteRender(rs[i])])

\* syn::Error::to_compile_error
ToCompileError(e) == <<"compile_error", "!", "{", e.expected, "}">>

(***************************************************************************)
(* Parsing.                                                                *)
(***************************************************************************)
Init ==
  /\ toks = <<>>
  /\ pos = 0
  /\ pc = "base"
  /\ route = <<>>
  /\ routes = <<>>
  /\ cur = NoRoute
  /\ err = NoError
  /\ output = <<>>

\* The token at the cursor is consumed / is left where it is.
Consume(t) == toks' = Seen(t) /\ pos' = pos + 1
Leave(t) == toks' = Seen(t) /\ pos' = pos

\* A failing parse step whose error is appended to the rendering of the
\* routes parsed so far.
FailPartial(t, expected) ==
  /\ Leave(t)
  /\ pc' = "failed"
  /\ err' = [at |-> pos + 1, expected |-> expected]
  /\ output' = RoutesRender(route, routes)
                 \o ToCompileError([at |-> pos + 1, expected |-> expected])
  /\ UNCHANGED <<route, routes, cur>>

\* A parse step returns Err: `?` hands the error up to define_routes, whose
\* parse_macro_input! returns the error as the macro's whole output.
Fail(t, expected) ==
  /\ Leave(t)
  /\ pc' = "failed"
  /\ err' = [at |-> pos + 1, expected |-> expected]
  /\ output' = ToCompileError([at |-> pos + 1, expected |-> expected])
  /\ UNCHANGED <<route, routes, cur>>

\* lookahead.peek(syn::Ident)
PeekIdent(t) == t.k = "Ident"

\* The lookahead chain of Method::parse.
PeekMethod(t) == t.k = "Ident" /\ t.v \in MethodKeywords

\* The loop of StandardRoute::parse going on only at a verb keyword.
MethodFollowsKeyword(t) == t # RBrace /\ PeekMethod(t)

\* The condition of StandardRoute::parse's loop to parse one more method.
MethodFollows(t) == t # RBrace /\ PeekIdent(t)

\* The loop's break taking the token it looked at.
BreakConsuming(t) == Consume(t)

\* The loop's break: the token it looked at stays at the cursor.
Break(t) == Leave(t)

\* lookahead.peek(Token![*]) of Route::parse
PeekNested(t) == t = Star

\* Routes::parse: the base expression.
RoutesParseBase ==
  /\ pc = "base"
  /\ \E t \in Look :
       \/ /\ t = LBrace
          /\ Leave(t)
          /\ route' = DefaultRoute
          /\ pc' = "braced"
          /\ UNCHANGED <<routes, cur, err, output>>
       \/ /\ t.k = "Expr"
          /\ Consume(t)
          /\ route' = <<t.v>>
          /\ pc' = "comma"
          /\ UNCHANGED <<routes, cur, err, output>>
       \/ /\ t # LBrace /\ t.k # "Expr"
          /\ Fail(t, "expected expression")

\* Routes::parse: the comma after the base expression.
RoutesParseComma ==
  /\ pc = "comma"
  /\ \E t \in Look :
       \/ /\ t = Comma
          /\ Consume(t)
          /\ pc' = "braced"
          /\ UNCHANGED <<route, routes, cur, err, output>>
       \/ /\ t # Comma
          /\ Fail(t, "expected ,")

\* Routes::parse: braced!(content in input).
RoutesParseBraced ==
  /\ pc = "braced"
  /\ \E t \in Look :
       \/ /\ t = LBrace
          /\ Consume(t)
          /\ pc' = "routes"
          /\ UNCHANGED <<route, routes, cur, err, output>>
       \/ /\ t # LBrace
          /\ Fail(t, "expected curly braces")

\* Routes::parse: the content is empty, the loop ends.
RoutesParseEnd ==
  /\ pc = "routes"
  /\ \E t \in Look :
       /\ t = RBrace
       /\ Consume(t)
       /\ pc' = "finish"
       /\ UNCHANGED <<route, routes, cur, err, output>>

\* Routes::parse's loop body: Route::parse chooses the variant from the
\* token at the cursor; NestedRoute::parse takes the `*`, StandardRoute::parse
\* the path literal.
RouteParse ==
  /\ pc = "routes"
  /\ \E t \in Look :
       /\ t # RBrace
       /\ \/ /\ PeekNested(t)
             /\ Consume(t)
             /\ cur' = [NoRoute EXCEPT !.kind = "Nested", !.from = pos + 1]
             /\ pc' = "nested_path"
             /\ UNCHANGED <<route, routes, err, output>>
          \/ /\ ~PeekNested(t) /\ t.k = "Str"
             /\ Consume(t)
             /\ cur' = [NoRoute EXCEPT !.kind = "Standard", !.path = t.v,
                                       !.from = pos + 1]
             /\ pc' = "handler"
             /\ UNCHANGED <<route, routes, err, output>>
          \/ /\ ~PeekNested(t) /\ t.k # "Str"
             /\ Fail(t, "expected string literal")

\* NestedRoute::parse: the path literal.
NestedRouteParsePath ==
  /\ pc = "nested_path"
  /\ \E t \in Look :
       \/ /\ t.k = "Str"
          /\ Consume(t)
          /\ cur' = [cur EXCEPT !.path = t.v]
          /\ pc' = "nested_block"
          /\ UNCHANGED <<route, routes, err, output>>
       \/ /\ t.k # "Str"
          /\ Fail(t, "expected string literal")

\* NestedRoute::parse: the block; the route is pushed.
NestedRouteParseEndpoint ==
  /\ pc = "nested_block"
  /\ \E t \in Look :
       \/ /\ t.k = "Block"
          /\ Consume(t)
          /\ routes' = Append(routes, [cur EXCEPT !.stmts = t.stmts, !.to = pos + 1])
          /\ cur' = NoRoute
          /\ pc' = "routes"
          /\ UNCHANGED <<route, err, output>>
       \/ /\ t.k # "Block"
          /\ Fail(t, "expected curly braces")

\* StandardRoute::parse: the handler path starts with `::` or a segment.
PathParseStart ==
  /\ pc = "handler"
  /\ \E t \in Look :
       \/ /\ t = PathSep
          /\ Consume(t)
          /\ cur' = [cur EXCEPT !.leading = TRUE]
          /\ pc' = "segment"
          /\ UNCHANGED <<route, routes, err, output>>
       \/ /\ PeekIdent(t)
          /\ Consume(t)
          /\ cur' = [cur EXCEPT !.segs = Append(@, t.v)]
          /\ pc' = "path_more"
          /\ UNCHANGED <<route, routes, err, output>>
       \/ /\ t # PathSep /\ ~PeekIdent(t)
          /\ Fail(t, "expected identifier")

\* The handler path: a segment after `::`.
PathParseSegment ==
  /\ pc = "segment"
  /\ \E t \in Look :
       \/ /\ PeekIdent(t)
          /\ Consume(t)
          /\ cur' = [cur EXCEPT !.segs = Append(@, t.v)]
          /\ pc' = "path_more"
          /\ UNCHANGED <<route, routes, err, output>>
       \/ /\ ~PeekIdent(t)
          /\ Fail(t, "expected identifier")

\* The handler path: `::` continues it, any other token ends it.
PathParseMore ==
  /\ pc = "path_more"
  /\ \E t \in Look :
       \/ /\ t = PathSep
          /\ Consume(t)
          /\ pc' = "segment"
          /\ UNCHANGED <<route, routes, cur, err, output>>
       \/ /\ t # PathSep
          /\ Leave(t)
          /\ pc' = "methods"
          /\ UNCHANGED <<route, routes, cur, err, output>>

\* StandardRoute::parse's loop body: Method::parse.
MethodParse ==
  /\ pc = "methods"
  /\ \E t \in Look :
       /\ MethodFollows(t)
       /\ \/ /\ PeekMethod(t)
             /\ Consume(t)
             /\ cur' = [cur EXCEPT !.methods = Append(@, t.v)]
             /\ pc' = "methods"
             /\ UNCHANGED <<route, routes, err, output>>
          \/ /\ ~PeekMethod(t)
             /\ Fail(t, "expected one of: GET, POST, PUT, DELETE")

\* StandardRoute::parse's loop ends; the route is pushed.
StandardRouteParseEnd ==
  /\ pc = "methods"
  /\ \E t \in Look :
       /\ ~MethodFollows(t)
       /\ Break(t)
       /\ routes' = Append(routes, [cur EXCEPT !.to = pos])
       /\ cur' = NoRoute
       /\ pc' = "routes"
       /\ UNCHANGED <<route, err, output>>

\* define_routes: the parse succeeded when nothing follows the table, and
\* the table is rendered.
DefineRoutes ==
  /\ pc = "finish"
  /\ \E t \in Look :
       \/ /\ t = EOF
          /\ Leave(t)
          /\ output' = RoutesRender(route, routes)
          /\ pc' = "done"
          /\ UNCHANGED <<route, routes, cur, err>>
       \/ /\ t # EOF
          /\ Fail(t, "unexpected token")

Next ==
  \/ RoutesParseBase
  \/ RoutesParseComma
  \/ RoutesParseBraced
  \/ RoutesParseEnd
  \/ RouteParse
  \/ NestedRouteParsePath
  \/ NestedRouteParseEndpoint
  \/ PathParseStart
  \/ PathParseSegment
  \/ PathParseMore
  \/ MethodParse
  \/ StandardRouteParseEnd
  \/ DefineRoutes

Spec == Init /\ [][Next]_vars

(***************************************************************************)
(* Reading an emitted expression back: its top-level calls and their       *)
(* arguments, found by bracket depth alone.                                *)
(***************************************************************************)
Delta(t) == IF t \in {"(", "{"} THEN 1 ELSE IF t \in {")", "}"} THEN 2 ELSE 0

\* The indexes i >= from of the tokens `what` of s at bracket depth 0
\* (for a closing bracket: the depth it returns to).
RECURSIVE TopLevel(_, _, _, _)
TopLevel(s, what, i, d) ==
  IF i > Len(s)
    THEN <<>>
    ELSE LET d2 == IF Delta(s[i]) = 1 THEN d + 1
                   ELSE IF Delta(s[i]) = 2 THEN d - 1 ELSE d
             at == IF Delta(s[i]) = 2 THEN d2 ELSE d
         IN  (IF s[i] = what /\ at = 0 THEN <<i>> ELSE <<>>)
               \o TopLevel(s, what, i + 1, d2)

\* The i-th top-level method call `.name(...)` of an expression.
CallCount(e) == Len(TopLevel(e, ".", 1, 0))

Call(e, i) ==
  LET st == TopLevel(e, ".", 1, 0)
  IN  SubSeq(e, st[i], IF i < Len(st) THEN st[i + 1] - 1 ELSE Len(e))

\* What precedes the first top-level call.
BaseOf(e) ==
  LET st == TopLevel(e, ".", 1, 0)
  IN  IF st = <<>> THEN e ELSE SubSeq(e, 1, st[1] - 1)

\* A call `.name(first, second)`: its second argument.
IsBinaryCall(c) ==
  /\ Len(c) >= 6
  /\ c[1] = "." /\ c[3] = "(" /\ c[5] = "," /\ c[Len(c)] = ")"

SecondArg(c) == SubSeq(c, 6, Len(c) - 1)

\* The calls `f(...)` that make up an endpoint chain: what precedes the
\* j-th top-level parenthesis, and what it encloses.
Opens(a) == TopLevel(a, "(", 1, 0)
Closes(a) == TopLevel(a, ")", 1, 0)

Callee(a, j) ==
  SubSeq(a, IF j = 1 THEN 1 ELSE Closes(a)[j - 1] + 1, Opens(a)[j] - 1)

Argument(a, j) == SubSeq(a, Opens(a)[j] + 1, Closes(a)[j] - 1)

\* The canonical lower-case name of a verb keyword.
CanonicalName ==
  [v \in {"GET", "POST", "PUT", "DELETE"} |->
     IF v = "GET" THEN "get"
     ELSE IF v = "POST" THEN "post"
     ELSE IF v = "PUT" THEN "put" ELSE "delete"]

\* The source tokens of a parsed Standard route: its path literal, its
\* handler path and its verbs.
SourceVerbs(r) ==
  [j \in 1..Len(r.methods) |-> toks[r.to - Len(r.methods) + j].v]

SourceHandler(r) ==
  [j \in 1..(r.to - Len(r.methods) - r.from) |-> toks[r.from + j].v]

Done == pc = "done"

(***************************************************************************)
(* C1.                                                                     *)
(***************************************************************************)
RoundTripInput ==
  <<Expr("myRoute"), Comma, LBrace,
    Str("/"), Ident("index"), Ident("GET"),
    Str("/x"), Ident("a"), PathSep, Ident("b"), Ident("GET"), Ident("POST"),
    RBrace, EOF>>

\* C1 as stated: for the round-trip input the expansion is
\* myRoute.at("/", get(get_index)).at("/x", get(get_b).post(a::post_b)),
\* the free functions being those of the poem namespace: the first verb
\* call of handler a::b receives get_b, the chained one a::post_b.
C1_AsStated ==
  (Done /\ toks = RoundTripInput) =>
    output = <<"myRoute",
               ".", "at", "(", "\"/\"", ",",
                 "poem", "::", "get", "(", "get_index", ")", ")",
               ".", "at", "(", "\"/x\"", ",",
                 "poem", "::", "get", "(", "get_b", ")",
                 ".", "post", "(", "a", "::", "post_b", ")", ")">>

\* C1 amended: for the round-trip input the expansion is
\* myRoute.at("/", get(get_index)).at("/x", get(a::get_b).post(a::post_b)):
\* two .at calls in source order on the base myRoute, and for handler a::b
\* both verb calls keep the qualifier, receiving a::get_b and a::post_b.
C1_RoundTrip ==
  (Done /\ toks = RoundTripInput) =>
    output = <<"myRoute",
               ".", "at", "(", "\"/\"", ",",
                 "poem", "::", "get", "(", "get_index", ")", ")",
               ".", "at", "(", "\"/x\"", ",",
                 "poem", "::", "get", "(", "a", "::", "get_b", ")",
                 ".", "post", "(", "a", "::", "post_b", ")", ")">>

C1_Witness == Done /\ toks = RoundTripInput /\ Len(routes) = 2

(***************************************************************************)
(* C2.                                                                     *)
(***************************************************************************)
\* C2: the expansion of a table of k >= 0 routes is the base expression
\* (the supplied expression, or poem::Route::new() when the input starts
\* with the table) followed by exactly k top-level calls, the i-th being
\* .nest if the i-th route of the source starts with `*` and .at
\* otherwise, on the i-th route's path literal; for k = 0 the output is
\* the base expression alone.
C2_CallPerRoute ==
  Done =>
    /\ BaseOf(output) = IF toks[1] = LBrace
                          THEN <<"poem", "::", "Route", "::", "new", "(", ")">>
                          ELSE <<toks[1].v>>
    /\ CallCount(output) = Len(routes)
    /\ \A i \in 1..Len(routes) :
         LET c == Call(output, i)
             nested == toks[routes[i].from] = Star
         IN  /\ (routes[i].kind = "Nested") = nested
             /\ IsBinaryCall(c)
             /\ c[2] = IF nested THEN "nest" ELSE "at"
             /\ c[4] = "\"" \o toks[routes[i].from + (IF nested THEN 1 ELSE 0)].v \o "\""
    /\ (routes = <<>> => output = BaseOf(output))

C2_Witness ==
  /\ Done
  /\ Len(routes) = 2
  /\ routes[1].kind = "Nested" /\ routes[2].kind = "Standard"
  /\ toks[1] = LBrace

(***************************************************************************)
(* C3.                                                                     *)
(***************************************************************************)
\* C3: for a Standard route with verbs V1..Vn, n >= 1, the second argument
\* of its .at call is exactly n verb calls in source order, V1 as the free
\* function poem::v1(...) and V2..Vn as chained methods .vi(...); a verb
\* repeated in the source is a repeated call.
C3_VerbChain ==
  Done =>
    \A i \in 1..Len(routes) :
      (routes[i].kind = "Standard" /\ routes[i].methods # <<>>) =>
        LET a == SecondArg(Call(output, i))
            verbs == SourceVerbs(routes[i])
        IN  /\ Len(Opens(a)) = Len(verbs)
            /\ Len(Closes(a)) = Len(verbs)
            /\ Closes(a)[Len(verbs)] = Len(a)
            /\ \A j \in 1..Len(verbs) :
                 Callee(a, j) = IF j = 1
                                  THEN <<"poem", "::", CanonicalName[verbs[j]]>>
                                  ELSE <<".", CanonicalName[verbs[j]]>>

C3_Witness ==
  /\ Done
  /\ \E i \in 1..Len(routes) :
       /\ routes[i].kind = "Standard"
       /\ Len(routes[i].methods) = 3
       /\ routes[i].methods[1] = routes[i].methods[3]
       /\ routes[i].methods[1] # routes[i].methods[2]

(***************************************************************************)
(* C4.                                                                     *)
(***************************************************************************)
\* C4: for a Standard route with no verbs the emitted call is
\* .at(<path>, <handler path>), the handler path of the source unchanged
\* as the endpoint argument and no verb call around it.
C4_BareHandler ==
  Done =>
    \A i \in 1..Len(routes) :
      (routes[i].kind = "Standard" /\ routes[i].methods = <<>>) =>
        /\ IsBinaryCall(Call(output, i))
        /\ SecondArg(Call(output, i)) = SourceHandler(routes[i])

(***************************************************************************)
(* C5.                                                                     *)
(***************************************************************************)
\* C5: for every verb V of a Standard route with handler path
\* q1::...::qm::name the argument of that verb's call is
\* q1::...::qm::v_name, v the canonical lower-case name of V: the last
\* segment alone is renamed, from the name in the source, for each verb
\* independently.
C5_DerivedIdentifier ==
  Done =>
    \A i \in 1..Len(routes) :
      routes[i].kind = "Standard" =>
        LET a == SecondArg(Call(output, i))
            verbs == SourceVerbs(routes[i])
            handler == SourceHandler(routes[i])
        IN  \A j \in 1..Len(verbs) :
              Argument(a, j) =
                [k \in 1..Len(handler) |->
                   IF k = Len(handler)
                     THEN CanonicalName[verbs[j]] \o "_" \o handler[k]
                     ELSE handler[k]]

C5_Witness ==
  /\ Done
  /\ \E i \in 1..Len(routes) :
       /\ routes[i].kind = "Standard"
       /\ Len(routes[i].segs) = 2
       /\ Len(routes[i].methods) = 2
       /\ routes[i].methods[1] # routes[i].methods[2]

(***************************************************************************)
(* C6.                                                                     *)
(***************************************************************************)
\* C6: a Nested route emits .nest(<path>, E), E being the inner expression
\* without braces when the block is exactly one expression without a
\* semicolon, and the block unchanged when it holds no statement or more
\* than one.
C6_NestedEndpoint ==
  Done =>
    \A i \in 1..Len(routes) :
      routes[i].kind = "Nested" =>
        LET c == Call(output, i)
            block == toks[routes[i].to].stmts
        IN  /\ IsBinaryCall(c) /\ c[2] = "nest"
            /\ block = <<"ExprTail">> => SecondArg(c) = <<"ep", "(", ")">>
            /\ Len(block) # 1 =>
                 SecondArg(c) =
                   <<"{">> \o Flatten([k \in 1..Len(block) |-> StmtTokens(block[k])])
                           \o <<"}">>

C6_Witness ==
  /\ Done
  /\ \E i, k \in 1..Len(routes) :
       /\ routes[i].kind = "Nested" /\ routes[i].stmts = <<"ExprTail">>
       /\ routes[k].kind = "Nested" /\ Len(routes[k].stmts) = 2

(***************************************************************************)
(* C9.                                                                     *)
(***************************************************************************)
\* C9: unwrapping never changes the endpoint value: the inner expression
\* replaces the block only when the single statement is an expression
\* without a semicolon; a block whose single statement is an expression
\* ended by `;`, a let binding or an item is emitted as the block unchanged.
C9_UnwrapKeepsValue ==
  Done =>
    \A i \in 1..Len(routes) :
      routes[i].kind = "Nested" =>
        LET c == Call(output, i)
            block == toks[routes[i].to].stmts
        IN  (Len(block) = 1 /\ block[1] \in {"ExprSemi", "Local", "Item"}) =>
              SecondArg(c) = <<"{">> \o StmtTokens(block[1]) \o <<"}">>

(***************************************************************************)
(* C7.                                                                     *)
(***************************************************************************)
\* The tokens the grammar admits at the cursor, by the place of the parse:
\* a brace or an expression first, a comma after the expression, the
\* table's brace, a route (`*` or a path literal) or the end of the table,
\* a path literal after `*`, a block after a nested path, an identifier
\* (or a leading `::`) for a handler, a verb keyword where an identifier
\* stands in verb position, nothing after the table.
Admits(place, t) ==
  CASE place = "base" -> t.k \in {"LBrace", "Expr"}
    [] place = "comma" -> t.k = "Comma"
    [] place = "braced" -> t.k = "LBrace"
    [] place = "routes" -> t.k \in {"Star", "Str", "RBrace"}
    [] place = "nested_path" -> t.k = "Str"
    [] place = "nested_block" -> t.k = "Block"
    [] place = "handler" -> t.k \in {"Ident", "PathSep"}
    [] place = "segment" -> t.k = "Ident"
    [] place = "methods" -> t.k # "Ident" \/ t.v \in {"GET", "POST", "PUT", "DELETE"}
    [] place = "finish" -> t.k = "EOF"
    [] OTHER -> TRUE

BuilderTokens == {".", "at", "nest", "poem", "get", "post", "put", "delete"}

InVerbPosition == pc = "methods"

\* C8 as stated: in verb position, an identifier that is not one of GET,
\* POST, PUT, DELETE ends the verb list unconsumed and without an error,
\* and is left to the route-list parser.
C8_AsStated ==
  [][(InVerbPosition /\ toks'[pos + 1].k = "Ident"
        /\ toks'[pos + 1].v \notin {"GET", "POST", "PUT", "DELETE"}) =>
       (pc' = "routes" /\ pos' = pos /\ err' = NoError)]_vars

\* C8 amended: in verb position, a token that is not an identifier (or the
\* end of the table) ends the verb list unconsumed and without an error,
\* and is left to the route-list parser; an identifier that is not one of
\* GET, POST, PUT, DELETE (case-sensitive) is an error of the verb parser,
\* reported at that token, which is not consumed.
C8_VerbListEnd ==
  [][InVerbPosition =>
       LET t == toks'[pos + 1]
       IN  /\ t.k # "Ident" =>
                /\ pc' = "routes" /\ pos' = pos /\ err' = NoError
                /\ Len(routes') = Len(routes) + 1
           /\ (t.k = "Ident" /\ t.v \notin {"GET", "POST", "PUT", "DELETE"}) =>
                /\ pc' = "failed" /\ pos' = pos /\ err'.at = pos + 1
                /\ routes' = routes
           /\ (t.k = "Ident" /\ t.v \in {"GET", "POST", "PUT", "DELETE"}) =>
                /\ pc' = "methods" /\ pos' = pos + 1 /\ err' = NoError]_vars

C8_Witness ==
  /\ pc = "failed"
  /\ toks[err.at] = Ident("get")
  /\ cur.methods = <<"GET">>

(***************************************************************************)
(* C10.                                                                    *)
(***************************************************************************)
\* The places of the parse in the order a parse moves through them between
\* two tokens.
Rank(place) ==
  CASE place = "base" -> 0
    [] place = "comma" -> 1
    [] place = "braced" -> 2
    [] place \in {"nested_path", "nested_block", "handler", "segment",
                  "path_more"} -> 3
    [] place = "methods" -> 4
    [] place = "routes" -> 5
    [] place = "finish" -> 6
    [] place = "done" -> 7
    [] place = "failed" -> 8

Terminated == pc \in {"done", "failed"}

\* The routes parsed so far cover the tokens from the one after the
\* table's opening brace to `last`, each token in exactly one route.
Tiled(open, last) ==
  /\ \A i \in 1..Len(routes) :
       /\ routes[i].from <= routes[i].to
       /\ routes[i].from = IF i = 1 THEN open + 1 ELSE routes[i - 1].to + 1
  /\ last = IF routes = <<>> THEN open ELSE routes[Len(routes)].to

\* C10: the parse of a finite token stream terminates: every step consumes
\* one token or fails or moves on in the parse without ever going back,
\* every turn of the route loop and of the verb loop consumes a token or
\* fails, and a parse that has not ended can take a step; the variant of a
\* route is decided by the one token at the cursor (`*`: Nested,
\* otherwise Standard), the parser never looking further; and a successful
\* parse has consumed every token between the braces, each belonging to
\* exactly one route.
C10_Progress ==
  /\ [][/\ pos' \in {pos, pos + 1}
        /\ pos' = pos => Rank(pc') > Rank(pc)
        /\ (pc = "routes" /\ pc' # "failed") => pos' = pos + 1
        /\ (pc = "methods" /\ pc' = "methods") => pos' = pos + 1]_vars
  /\ [](~Terminated => ENABLED Next)
  /\ [](Len(toks) \in {pos, pos + 1})
  /\ [](\A i \in 1..Len(routes) :
          (routes[i].kind = "Nested") = (toks[routes[i].from] = Star))
  /\ [](pc \in {"finish", "done"} =>
          /\ toks[pos] = RBrace
          /\ \E open \in 1..pos : toks[open] = LBrace /\ Tiled(open, pos - 1))
  /\ [](Done => Len(toks) = pos + 1 /\ toks[pos + 1] = EOF)
  /\ <>Terminated

C10_Witness ==
  /\ Done
  /\ Len(routes) = 2
  /\ routes[1].kind = "Standard" /\ Len(routes[1].methods) = 1
  /\ routes[2].kind = "Nested"

FairSpec == Spec /\ WF_vars(Next)

====
